---- MODULE Spec2Model ----
(***************************************************************************)
(* Model of the httPWM controller: the command mailbox and control loop of *)
(* Controller (src/lib.rs), the schedule entries of src/lib/scheduler.rs,  *)
(* the request handlers of src/bin/main.rs and the decision engine         *)
(* scheduler::State, whose source is not part of the tree and is modelled  *)
(* from the design document.                                               *)
(*                                                                         *)
(* Time is a discrete wall clock `now` counted in ticks; a day has DayLen  *)
(* ticks and day 0 is a Monday.  A Strength is an integer number of        *)
(* thousandths, 0..Full.                                                   *)
(***************************************************************************)
EXTENDS Integers, Sequences, FiniteSets, TLC

\* ---- bounds of the exploration ----
DayLen == 3
MaxNow == 2
MaxSends == 2
MaxAux == 1
MaxEditDay == 1
MaxFires == 7
MaxDrops == 1
MaxRequests == 2

\* ---- program constants ----
\* Strength 1.0 in thousandths
Full == 1000
\* the time of day main stores for every weekday (08:47:00), in ticks
PrimaryTime == 1
\* the duration of main's day transition (30 s), in ticks
DefaultDuration == 2

Days == 0..6
Times == 0..(DayLen - 1)

VARIABLES now, mailbox, sleeping, pc, command, action, output, state,
          handle, sent, processed, last, fires, gauge, handlers

vars == <<now, mailbox, sleeping, pc, command, action, output, state,
          handle, sent, processed, last,
                   fires, gauge, handlers>>

\* ---- wall clock ----
TimeOfDay(t) == t % DayLen
Weekday(t) == (t \div DayLen) % 7

\* ---- Day ----
Day_next(day) == (day + 1) % 7

\* ---- schedule entries ----
WeekSchedulerEntry(times, current) ==
    [kind |-> "Week", times |-> times, current |-> current]

RepeatingScheduler(time) == [kind |-> "Repeating", time |-> time]

WeekScheduler_same(time, current) ==
    WeekSchedulerEntry([d \in Days |-> time], current)

WeekScheduler_get(self, day) == self.times[day]

WeekScheduler_get_next_time(self) ==
    WeekScheduler_get(self, Day_next(self.current))

\* a faulty span that places a time of day equal to now at this very instant
SpanToTime_Inclusive(t, next) ==
    IF TimeOfDay(t) <= next
        THEN next - TimeOfDay(t)
        ELSE DayLen - TimeOfDay(t) + next

\* span from t to the next wall-clock occurrence of time of day `next`:
\* today when it is still ahead, tomorrow otherwise
SpanToTime(t, next) ==
    IF TimeOfDay(t) < next
        THEN next - TimeOfDay(t)
        ELSE DayLen - TimeOfDay(t) + next

WeekScheduler_get_next(self, t) ==
    SpanToTime(t, WeekScheduler_get_next_time(self))

RepeatingScheduler_get_next(self, t) == SpanToTime(t, self.time)

Scheduler_get_next(entry, t) ==
    IF entry.kind = "Week"
        THEN WeekScheduler_get_next(entry, t)
        ELSE RepeatingScheduler_get_next(entry, t)

\* a faulty weekly entry that does not renew itself
WeekScheduler_add_NoRenewal(self) == <<>>

\* a faulty weekly entry that renews itself without advancing the cursor
WeekScheduler_add_Stay(self) == <<self>>

\* the renewal hook: <<>> is None, <<e>> is Some(e)
WeekScheduler_add(self) ==
    <<[self EXCEPT !.current = Day_next(self.current)]>>

\* a faulty default hook that renews the entry
Scheduler_add_default_Renew(self) == <<self>>

Scheduler_add_default(self) == <<>>

Scheduler_add(entry) ==
    IF entry.kind = "Week"
        THEN WeekScheduler_add(entry)
        ELSE Scheduler_add_default(entry)

\* ---- schedule set ----
IsPrimary(entry) == entry.kind = "Week"

RECURSIVE FireEntries(_, _, _)
\* invoke the firing hook of the entries at the indices in `fired`,
\* replacing each by its renewal or dropping it; i is the next index
FireEntries(schedules, fired, i) ==
    IF i > Len(schedules) THEN <<>>
    ELSE (IF i \in fired THEN Scheduler_add(schedules[i]) ELSE <<schedules[i]>>)
         \o FireEntries(schedules, fired, i + 1)

DueEntries(schedules, t) ==
    {i \in 1..Len(schedules) : Scheduler_get_next(schedules[i], t) <= 0}

\* history: how many entries of each kind have fired
Fired(count, schedules, fired) ==
    [k \in {"Week", "Repeating"} |->
        count[k] + Cardinality({i \in fired : schedules[i].kind = k})]

fire_due_entries(schedules, t) ==
    [schedules |-> FireEntries(schedules, DueEntries(schedules, t), 1),
     fired |-> DueEntries(schedules, t) # {}]

Min(S) == CHOOSE x \in S : \A y \in S : x <= y

\* WaitFor the shortest span of the set, unbounded when the set is empty
next_fire(schedules, t) ==
    IF Len(schedules) = 0
        THEN [kind |-> "Forever"]
        ELSE [kind |-> "Duration",
              dur |-> Min({Scheduler_get_next(schedules[i], t) :
                              i \in 1..Len(schedules)})]

ClearAuxiliary(schedules) == SelectSeq(schedules, IsPrimary)

ChangeDayTimerEntry(entry, day, time) ==
    IF IsPrimary(entry) /\ time # <<>>
        THEN [entry EXCEPT !.times[day] = time[1]]
        ELSE entry

ChangeDayTimer(schedules, day, time) ==
    [i \in 1..Len(schedules) |-> ChangeDayTimerEntry(schedules[i], day, time)]

\* ---- transitions and the curve engine ----
Transition(from, to, time, interpolation) ==
    [from |-> from, to |-> to, time |-> time, interpolation |-> interpolation]

\* (1 - cos(pi * elapsed / duration)) / 2 in thousandths, for the fractions
\* the explored durations produce
SineEase(elapsed, duration) ==
    CASE 2 * elapsed = duration -> 500
      [] 3 * elapsed = duration -> 250
      [] 3 * elapsed = 2 * duration -> 750
      [] 4 * elapsed = duration -> 146
      [] 4 * elapsed = 3 * duration -> 854
      [] 6 * elapsed = duration -> 67
      [] 6 * elapsed = 5 * duration -> 933
      [] OTHER -> (Full * elapsed) \div duration

LinearEase(elapsed, duration) == (Full * elapsed) \div duration

\* the eased fraction in thousandths; callers pass 0 < duration, elapsed < duration
Ease(interpolation, elapsed, duration) ==
    IF elapsed = 0 THEN 0
    ELSE IF interpolation = "Sine"
        THEN SineEase(elapsed, duration)
        ELSE LinearEase(elapsed, duration)

\* the curve value after `elapsed` ticks; the fraction is clamped to 1 and a
\* zero duration is the jump to `to`
ValueAt(t, elapsed) ==
    IF t.time = 0 \/ elapsed >= t.time
        THEN t.to
        ELSE t.from + ((t.to - t.from) * Ease(t.interpolation, elapsed, t.time)) \div Full

\* ---- commands and actions ----
CmdSet(s) == [kind |-> "Set", value |-> s]
CmdSetTransition(t) == [kind |-> "SetTransition", transition |-> t]
CmdChangeDayTimer(day, time) == [kind |-> "ChangeDayTimer", day |-> day, time |-> time]
CmdChangeDayTimerTransition(t) == [kind |-> "ChangeDayTimerTransition", transition |-> t]
CmdAddScheduler(entry) == [kind |-> "AddScheduler", entry |-> entry]
CmdClearAllSchedulers == [kind |-> "ClearAllSchedulers"]
CmdFinish == [kind |-> "Finish"]

ActionWait(sleep) == [kind |-> "Wait", sleep |-> sleep]
ActionSet(s) == [kind |-> "Set", value |-> s]
ActionBreak == [kind |-> "Break"]

SleepingForever == [kind |-> "Forever"]
SleepingTo(instant) == [kind |-> "To", instant |-> instant]
SleepingWake == [kind |-> "Wake"]

\* ---- decision engine ----
\* the transition main hands to WeekScheduler::same: 0.0 -> 1.0 over
\* DefaultDuration.  main names the curve LinearToAndBack(0.5), which
\* TransitionInterpolation does not have; the design document's startup
\* configuration is Linear.
DefaultTransition == Transition(0, Full, DefaultDuration, "Linear")

State_new(scheduler) ==
    [schedules |-> <<scheduler>>,
     active_transition |-> <<>>,
     default_transition |-> DefaultTransition]

Started(t, start) == <<[transition |-> t, start |-> start]>>

Result(st, act) == [state |-> st, action |-> act]

WaitRecomputed(st, t) == Result(st, ActionWait(next_fire(st.schedules, t)))

ProcessCommand(st, c, t) ==
    CASE c.kind = "Set" ->
            Result([st EXCEPT !.active_transition = <<>>], ActionSet(c.value))
      [] c.kind = "SetTransition" ->
            Result([st EXCEPT !.active_transition = Started(c.transition, t)],
                   ActionSet(ValueAt(c.transition, 0)))
      [] c.kind = "ChangeDayTimer" ->
            WaitRecomputed(
                [st EXCEPT !.schedules = ChangeDayTimer(st.schedules, c.day, c.time)], t)
      [] c.kind = "ChangeDayTimerTransition" ->
            WaitRecomputed([st EXCEPT !.default_transition = c.transition], t)
      [] c.kind = "AddScheduler" ->
            WaitRecomputed([st EXCEPT !.schedules = Append(st.schedules, c.entry)], t)
      [] c.kind = "ClearAllSchedulers" ->
            WaitRecomputed([st EXCEPT !.schedules = ClearAuxiliary(st.schedules)], t)
      [] c.kind = "Finish" -> Result(st, ActionBreak)

\* step 3: no transition in progress
ProcessSchedules(st, t) ==
    LET f == fire_due_entries(st.schedules, t) IN
    IF f.fired
        THEN Result([st EXCEPT !.schedules = f.schedules,
                               !.active_transition = Started(st.default_transition, t)],
                    ActionSet(ValueAt(st.default_transition, 0)))
        ELSE WaitRecomputed(st, t)

\* step 2: a transition is in progress
ProcessTransition(st, t) ==
    LET a == st.active_transition[1]
        elapsed == t - a.start
        f == fire_due_entries(st.schedules, t)
    IN  IF elapsed >= a.transition.time
            THEN Result([st EXCEPT !.schedules = f.schedules,
                                   !.active_transition =
                                       IF f.fired THEN Started(st.default_transition, t)
                                                  ELSE <<>>],
                        ActionSet(a.transition.to))
            ELSE Result(st, ActionSet(ValueAt(a.transition, elapsed)))

\* the entries a call of process fires
FiredBy(st, cmd, t) ==
    IF cmd = <<>>
       /\ (st.active_transition # <<>>
            => t - st.active_transition[1].start
                    >= st.active_transition[1].transition.time)
        THEN DueEntries(st.schedules, t)
        ELSE {}

\* command is <<>> for None and <<c>> for Some(c)
process(st, cmd, t) ==
    IF cmd # <<>> THEN ProcessCommand(st, cmd[1], t)
    ELSE IF st.active_transition # <<>> THEN ProcessTransition(st, t)
    ELSE ProcessSchedules(st, t)

\* ---- inputs ----
\* the owner of the controller is sender 0; the strength client is sender 1
\* and the schedule client is sender 2
Senders == 0..2

RampUp == Transition(0, Full, 2, "Linear")
EaseDown == Transition(Full, 200, 2, "Sine")
Jump == Transition(200, 800, 0, "Linear")

StrengthCommands ==
    {CmdSet(300), CmdSetTransition(RampUp), CmdSetTransition(EaseDown),
     CmdSetTransition(Jump)}

ScheduleCommands ==
    {CmdChangeDayTimer(1, <<DayLen - 1>>),
     CmdChangeDayTimer(0, <<>>),
     CmdChangeDayTimerTransition(EaseDown),
     CmdAddScheduler(RepeatingScheduler(DayLen - 1)),
     CmdClearAllSchedulers}

CommandsOf(sender) ==
    IF sender = 1 THEN StrengthCommands
    ELSE IF sender = 2 THEN ScheduleCommands
    ELSE {CmdFinish}

\* the weekday cursor the primary entry starts with
InitDay == 0

\* the request handlers of the control surface, and one at rest
Handlers == 1..2
Idle == [pc |-> "idle", status |-> "none", n |-> 0]

NoOutput == [kind |-> "unset"]
Written(s) == [kind |-> "set", value |-> s]

\* ---- the controller ----
Init ==
    /\ now = 0
    /\ mailbox = <<>>
    /\ sleeping = SleepingWake
    /\ pc = "recv"
    /\ command = <<>>
    /\ action = <<>>
    /\ output = NoOutput
    /\ state = State_new(WeekScheduler_same(PrimaryTime, InitDay))
    /\ handle = "open"
    /\ sent = [s \in Senders |-> 0]
    /\ processed = [s \in Senders |-> 0]
    /\ last = <<>>
    /\ fires = [k \in {"Week", "Repeating"} |-> 0]
    /\ gauge = 0
    /\ handlers = [h \in Handlers |-> Idle]

\* the clock advances on its own
Tick ==
    /\ now < MaxNow
    /\ now' = now + 1
    /\ UNCHANGED <<mailbox, sleeping, pc, command, action, output, state,
                   handle, sent, processed, last,
                   fires, gauge, handlers>>

Sends == sent[1] + sent[2]

\* a command in the channel, with the sender and its position among that
\* sender's commands
Envelope(sender, c) == [cmd |-> c, from |-> sender, seq |-> sent[sender] + 1]

channel_send(queue, m) == Append(queue, m)

\* Controller::send
Send(sender, c) ==
    /\ handle = "open"
    /\ Sends < MaxSends
    /\ mailbox' = channel_send(mailbox, Envelope(sender, c))
    /\ sent' = [sent EXCEPT ![sender] = @ + 1]
    /\ UNCHANGED <<now, sleeping, pc, command, action, output, state,
                   handle, processed, last, fires, gauge, handlers>>

\* Controller::finish: send Finish, then join the thread
FinishSend ==
    /\ handle = "open"
    /\ mailbox' = channel_send(mailbox, Envelope(0, CmdFinish))
    /\ sent' = [sent EXCEPT ![0] = @ + 1]
    /\ handle' = "joining"
    /\ UNCHANGED <<now, sleeping, pc, command, action, output, state,
                   processed, last, fires, gauge, handlers>>

FinishJoin ==
    /\ handle = "joining"
    /\ pc = "done"
    /\ handle' = "returned"
    /\ UNCHANGED <<now, mailbox, sleeping, pc, command, action, output, state,
                   sent, processed, last,
                   fires, gauge, handlers>>

\* a faulty channel that hands out the newest message first
try_recv_newest(queue) ==
    IF queue = <<>>
        THEN [command |-> <<>>, rest |-> queue]
        ELSE [command |-> <<queue[Len(queue)]>>,
              rest |-> SubSeq(queue, 1, Len(queue) - 1)]

\* receiver.try_recv().ok(): [command, rest]
try_recv(queue) ==
    IF queue = <<>>
        THEN [command |-> <<>>, rest |-> queue]
        ELSE [command |-> <<Head(queue)>>, rest |-> Tail(queue)]

\* Some(_) of instant.checked_duration_since(Instant::now())
DeadlineAhead(instant, t) == instant >= t

\* a faulty wait test that honours only the unbounded wait
MustSleep_ForeverOnly(sl, t) == sl.kind = "Forever"

MustSleep(sl, t) ==
    \/ sl.kind = "To" /\ DeadlineAhead(sl.instant, t)
    \/ sl.kind = "Forever"

\* history: what the loop was doing when the command arrived
Interrupted(sl, t) ==
    IF sl.kind = "To"
        THEN IF DeadlineAhead(sl.instant, t) THEN "deadline ahead" ELSE "deadline passed"
        ELSE sl.kind

\* the received message, with the wait disposition it interrupted
Received(m, sl, t) ==
    [cmd |-> m.cmd, from |-> m.from, seq |-> m.seq, interrupted |-> Interrupted(sl, t)]

\* a faulty loop head that keeps the stored wait disposition
LoopRecvCommand_KeepSleeping ==
    /\ pc = "recv"
    /\ try_recv(mailbox).command # <<>>
    /\ command' = <<Received(try_recv(mailbox).command[1], sleeping, now)>>
    /\ mailbox' = try_recv(mailbox).rest
    /\ pc' = "process"
    /\ UNCHANGED <<now, sleeping, action, output, state, handle, sent, processed, last,
                   fires, gauge, handlers>>

\* the head of the loop when a command is pending
LoopRecvCommand ==
    /\ pc = "recv"
    /\ try_recv(mailbox).command # <<>>
    /\ command' = <<Received(try_recv(mailbox).command[1], sleeping, now)>>
    /\ mailbox' = try_recv(mailbox).rest
    /\ sleeping' = SleepingWake
    /\ pc' = "process"
    /\ UNCHANGED <<now, action, output, state, handle, sent, processed, last,
                   fires, gauge, handlers>>

\* the head of the loop when no command is pending and the wait is not over
LoopSleep ==
    /\ pc = "recv"
    /\ try_recv(mailbox).command = <<>>
    /\ MustSleep(sleeping, now)
    /\ pc' = "sleep"
    /\ UNCHANGED <<now, mailbox, sleeping, command, action, output, state,
                   handle, sent, processed, last,
                   fires, gauge, handlers>>

\* thread::sleep(1 ms) returns; continue
LoopContinue ==
    /\ pc = "sleep"
    /\ pc' = "recv"
    /\ UNCHANGED <<now, mailbox, sleeping, command, action, output, state,
                   handle, sent, processed, last,
                   fires, gauge, handlers>>

\* the head of the loop when no command is pending and the wait is over
LoopRecvNone ==
    /\ pc = "recv"
    /\ try_recv(mailbox).command = <<>>
    /\ ~MustSleep(sleeping, now)
    /\ command' = <<>>
    /\ pc' = "process"
    /\ UNCHANGED <<now, mailbox, sleeping, action, output, state,
                   handle, sent, processed, last,
                   fires, gauge, handlers>>

\* the Option<Command> handed to process
Payload(m) == IF m = <<>> THEN <<>> ELSE <<m[1].cmd>>

\* history: the Set or SetTransition command processed most recently, <<>>
\* once another command was processed or a schedule entry fired
Superseding(old, cmd, st, t) ==
    IF cmd # <<>>
        THEN IF cmd[1].kind \in {"Set", "SetTransition"} THEN cmd ELSE <<>>
        ELSE IF DueEntries(st.schedules, t) # {} THEN <<>> ELSE old

\* let action = state.process(command)
LoopProcess ==
    /\ pc = "process"
    /\ state' = process(state, Payload(command), now).state
    /\ action' = <<process(state, Payload(command), now).action>>
    /\ processed' = IF command = <<>> THEN processed
                     ELSE [processed EXCEPT ![command[1].from] = @ + 1]
    /\ last' = Superseding(last, Payload(command), state, now)
    /\ fires' = Fired(fires, state.schedules, FiredBy(state, Payload(command), now))
    /\ pc' = "apply"
    /\ UNCHANGED <<now, mailbox, sleeping, command, output, handle, sent, gauge, handlers>>

ApplyWait(sleep, t) ==
    IF sleep.kind = "Duration" THEN SleepingTo(t + sleep.dur) ELSE SleepingForever

\* a faulty match that resets the sink when the loop breaks
LoopApply_ResetOnBreak ==
    /\ pc = "apply"
    /\ LET a == action[1] IN
        /\ sleeping' = IF a.kind = "Wait" THEN ApplyWait(a.sleep, now) ELSE sleeping
        /\ output' = IF a.kind = "Set" THEN Written(a.value)
                      ELSE IF a.kind = "Break" THEN Written(0) ELSE output
        /\ pc' = IF a.kind = "Break" THEN "done" ELSE "recv"
    /\ action' = <<>>
    /\ UNCHANGED <<now, mailbox, command, state, handle, sent, processed, last,
                   fires, gauge, handlers>>

\* a faulty match that never leaves the loop
LoopApply_NoBreak ==
    /\ pc = "apply"
    /\ LET a == action[1] IN
        /\ sleeping' = IF a.kind = "Wait" THEN ApplyWait(a.sleep, now) ELSE sleeping
        /\ output' = IF a.kind = "Set" THEN Written(a.value) ELSE output
        /\ pc' = "recv"
    /\ action' = <<>>
    /\ UNCHANGED <<now, mailbox, command, state, handle, sent, processed, last,
                   fires, gauge, handlers>>

\* a faulty match that writes a Set action's strength one step short
LoopApply_WrongValue ==
    /\ pc = "apply"
    /\ LET a == action[1] IN
        /\ sleeping' = IF a.kind = "Wait" THEN ApplyWait(a.sleep, now) ELSE sleeping
        /\ output' = IF a.kind = "Set" THEN Written(a.value - 1) ELSE output
        /\ pc' = IF a.kind = "Break" THEN "done" ELSE "recv"
    /\ action' = <<>>
    /\ UNCHANGED <<now, mailbox, command, state, handle, sent, processed, last,
                   fires, gauge, handlers>>

\* a faulty match that parks the loop on a written sample as on a wait
LoopApply_SetThenForever ==
    /\ pc = "apply"
    /\ LET a == action[1] IN
        /\ sleeping' = IF a.kind = "Wait" THEN ApplyWait(a.sleep, now)
                        ELSE IF a.kind = "Set" THEN SleepingForever ELSE sleeping
        /\ output' = IF a.kind = "Set" THEN Written(a.value) ELSE output
        /\ pc' = IF a.kind = "Break" THEN "done" ELSE "recv"
    /\ action' = <<>>
    /\ UNCHANGED <<now, mailbox, command, state, handle, sent, processed, last,
                   fires, gauge, handlers>>

\* match action
LoopApply ==
    /\ pc = "apply"
    /\ LET a == action[1] IN
        /\ sleeping' = IF a.kind = "Wait" THEN ApplyWait(a.sleep, now) ELSE sleeping
        /\ output' = IF a.kind = "Set" THEN Written(a.value) ELSE output
        /\ pc' = IF a.kind = "Break" THEN "done" ELSE "recv"
    /\ action' = <<>>
    /\ UNCHANGED <<now, mailbox, command, state, handle, sent, processed, last,
                   fires, gauge, handlers>>

Next ==
    \/ Tick
    \/ \E sender \in 1..2 : \E c \in CommandsOf(sender) : Send(sender, c)
    \/ FinishSend
    \/ FinishJoin
    \/ LoopRecvCommand
    \/ LoopSleep
    \/ LoopContinue
    \/ LoopRecvNone
    \/ LoopProcess
    \/ LoopApply

Spec == Init /\ [][Next]_vars

\* the background thread is scheduled fairly, and so is the joining caller
Loop ==
    \/ LoopRecvCommand
    \/ LoopSleep
    \/ LoopContinue
    \/ LoopRecvNone
    \/ LoopProcess
    \/ LoopApply

FairSpec == Spec /\ WF_vars(Loop) /\ WF_vars(FinishJoin)

\* ---- the schedule set and the engine on their own ----
\* the engine is handed schedule commands directly and the firing hook of an
\* entry may be invoked at any instant
SchedInputs ==
    {CmdChangeDayTimer(d, <<t>>) : d \in 0..MaxEditDay, t \in {0, DayLen - 1}}
    \cup {CmdChangeDayTimer(0, <<>>), CmdClearAllSchedulers}
    \cup {CmdAddScheduler(RepeatingScheduler(t)) : t \in {0, DayLen - 1}}

InitSched ==
    /\ now \in 0..MaxNow
    /\ mailbox = <<>>
    /\ sleeping = SleepingWake
    /\ pc = "recv"
    /\ command = <<>>
    /\ action = <<>>
    /\ output = NoOutput
    /\ state = State_new(WeekScheduler_same(PrimaryTime, InitDay))
    /\ handle = "open"
    /\ sent = [s \in Senders |-> 0]
    /\ processed = [s \in Senders |-> 0]
    /\ last = <<>>
    /\ fires = [k \in {"Week", "Repeating"} |-> 0]
    /\ gauge = 0
    /\ handlers = [h \in Handlers |-> Idle]

EngineCommand(c) ==
    /\ c.kind = "AddScheduler" => Len(state.schedules) <= MaxAux
    /\ command' = <<[cmd |-> c]>>
    /\ state' = process(state, <<c>>, now).state
    /\ action' = <<process(state, <<c>>, now).action>>
    /\ UNCHANGED <<now, mailbox, sleeping, pc, output, handle, sent, processed, last,
                   fires, gauge, handlers>>

EngineFire(i) ==
    /\ fires[state.schedules[i].kind]
            < (IF IsPrimary(state.schedules[i]) THEN MaxFires ELSE MaxDrops)
    /\ state' = [state EXCEPT !.schedules = FireEntries(state.schedules, {i}, 1)]
    /\ fires' = Fired(fires, state.schedules, {i})
    /\ command' = <<>>
    /\ action' = <<>>
    /\ UNCHANGED <<now, mailbox, sleeping, pc, output, handle, sent, processed, last,
                   gauge, handlers>>

NextSched ==
    \/ Tick
    \/ \E c \in SchedInputs : EngineCommand(c)
    \/ \E i \in 1..Len(state.schedules) : EngineFire(i)

SpecSched == InitSched /\ [][NextSched]_vars

\* ---- f64 and Strength ----
\* an f64 is a number of thousandths, or NaN, which no comparison holds for
NaN == 0 - Full * Full

f64_lt(a, b) == a # NaN /\ b # NaN /\ a < b
f64_gt(a, b) == a # NaN /\ b # NaN /\ a > b
f64_le(a, b) == a # NaN /\ b # NaN /\ a <= b
f64_ge(a, b) == a # NaN /\ b # NaN /\ a >= b

\* value * k for a whole number k
f64_mul(value, k) == IF value = NaN THEN NaN ELSE value * k

\* `as u8`: NaN is 0, the rest is truncated and saturated
as_u8(value) ==
    IF value = NaN \/ value < 0 THEN 0
    ELSE IF value \div Full > 255 THEN 255
    ELSE value \div Full

\* <<>> when an assertion fails and the caller aborts
Strength_new(value) ==
    IF f64_le(value, Full) /\ f64_ge(value, 0) THEN <<value>> ELSE <<>>

Strength_new_clamped(value) ==
    IF f64_lt(value, 0) THEN 0
    ELSE IF f64_gt(value, Full) THEN Full
    ELSE value

\* min and max are whole numbers
clamp_map_from_0_to_1(value, min, max) ==
    IF f64_lt(value, min * Full) THEN min * Full
    ELSE IF f64_gt(value, max * Full) THEN max * Full
    ELSE f64_mul(value, max)

\* Duration::from_secs_f64, in ticks: <<>> when it panics
Duration_from_secs_f64(secs) ==
    IF secs = NaN \/ secs < 0 THEN <<>> ELSE <<secs>>

\* ---- the control surface ----
\* a piece of text of a request: a number, a weekday or a time of day it
\* spells, junk, or nothing at all
Number(v) == [text |-> "number", value |-> v]
WeekdayName(d) == [text |-> "weekday", value |-> d]
TimeText(t) == [text |-> "time", value |-> t]
Junk == [text |-> "junk"]
Absent == [text |-> "absent"]

\* str::parse::<f64>().ok()
parse_f64(token) == IF token.text = "number" THEN <<token.value>> ELSE <<>>

SetStrengthRequest(strength) == [route |-> "/set-strength", strength |-> strength]
SetDayRequest(day, time) == [route |-> "/set-day-time", day |-> day, time |-> time]
TransitionRequest(act, from, to, time, interpolation, extras) ==
    [route |-> "/transition", action |-> act, from |-> from, to |-> to,
     time |-> time, interpolation |-> interpolation, extras |-> extras]
ClearRequest == [route |-> "/clear-schedulers"]

\* <<>> is None
SetDay_to_command(body) ==
    IF body.day.text # "weekday" THEN <<>>
    ELSE IF body.time.text = "absent"
        THEN <<CmdChangeDayTimer(body.day.value, <<>>)>>
    ELSE IF body.time.text = "time"
        THEN <<CmdChangeDayTimer(body.day.value, <<body.time.value>>)>>
    ELSE <<>>

\* <<>> is None
Interpolation_of(name, extras) ==
    CASE name = "linear" -> <<"Linear">>
      [] name = "sine" -> <<"Sine">>
      [] name = "linear-extra" /\ Len(extras) = 1 ->
            IF parse_f64(extras[1]) # <<>> THEN <<"LinearToAndBack">> ELSE <<>>
      [] name = "sine-extra" /\ Len(extras) = 1 ->
            IF parse_f64(extras[1]) # <<>> THEN <<"SineToAndBack">> ELSE <<>>
      [] OTHER -> <<>>

\* [panic, transition]: the duration is converted before the curve is looked up
SetTransition_to_transition(body) ==
    IF parse_f64(body.from) = <<>> \/ parse_f64(body.to) = <<>>
       \/ parse_f64(body.time) = <<>>
        THEN [panic |-> FALSE, transition |-> <<>>]
    ELSE IF Duration_from_secs_f64(body.time.value) = <<>>
        THEN [panic |-> TRUE, transition |-> <<>>]
    ELSE IF Interpolation_of(body.interpolation, body.extras) = <<>>
        THEN [panic |-> FALSE, transition |-> <<>>]
    ELSE [panic |-> FALSE,
          transition |-> <<Transition(Strength_new_clamped(body.from.value),
                                      Strength_new_clamped(body.to.value),
                                      Duration_from_secs_f64(body.time.value)[1],
                                      Interpolation_of(body.interpolation,
                                                       body.extras)[1])>>]

Outcome(kind, c) == [outcome |-> kind, command |-> c]

\* what a handler makes of a request: a command to send, a strength to store
\* and send, a client error, or a panic
Translate(r) ==
    CASE r.route = "/clear-schedulers" -> Outcome("command", <<CmdClearAllSchedulers>>)
      [] r.route = "/set-strength" ->
            IF parse_f64(r.strength) # <<>>
                THEN Outcome("store", <<>>) ELSE Outcome("none", <<>>)
      [] r.route = "/set-day-time" ->
            IF SetDay_to_command(r) # <<>>
                THEN Outcome("command", SetDay_to_command(r)) ELSE Outcome("none", <<>>)
      [] r.route = "/transition" ->
            LET t == SetTransition_to_transition(r) IN
            IF t.panic THEN Outcome("panic", <<>>)
            ELSE IF t.transition = <<>> THEN Outcome("none", <<>>)
            ELSE IF r.action = "set"
                THEN Outcome("command", <<CmdChangeDayTimerTransition(t.transition[1])>>)
            ELSE IF r.action = "preview"
                THEN Outcome("command", <<CmdSetTransition(t.transition[1])>>)
            ELSE Outcome("none", <<>>)

StrengthTexts == {Junk, Number(300), Number(800), Number(1500), Number(NaN)}

ServerRequests ==
    {SetStrengthRequest(s) : s \in StrengthTexts}
    \cup {SetDayRequest(Junk, Absent),
          SetDayRequest(WeekdayName(1), Junk),
          SetDayRequest(WeekdayName(1), TimeText(DayLen - 1))}
    \cup {TransitionRequest("preview", Number(0), Number(Full), Number(2), "linear", <<>>),
          TransitionRequest("bogus", Number(0), Number(Full), Number(2), "linear", <<>>),
          TransitionRequest("set", Number(1500), Number(200), Number(2), "sine", <<>>),
          TransitionRequest("preview", Number(0), Number(Full), Number(2), "bogus", <<>>),
          TransitionRequest("preview", Number(0), Number(Full), Number(2), "linear-extra", <<>>),
          TransitionRequest("preview", Number(0), Number(Full), Number(2), "sine-extra", <<Junk>>),
          TransitionRequest("preview", Number(0), Junk, Number(2), "linear", <<>>),
          TransitionRequest("preview", Number(0), Number(Full), Number(0 - 1), "linear", <<>>)}
    \cup {ClearRequest}

\* the transition main sends before it starts the server
StartupTransition == Transition(0, Full, 1, "Linear")

InitServer ==
    /\ now = 0
    /\ mailbox = <<[cmd |-> CmdSetTransition(StartupTransition), from |-> 0, seq |-> 1]>>
    /\ sleeping = SleepingWake
    /\ pc = "recv"
    /\ command = <<>>
    /\ action = <<>>
    /\ output = NoOutput
    /\ state = State_new(WeekScheduler_same(PrimaryTime, InitDay))
    /\ handle = "open"
    /\ sent = [s \in Senders |-> IF s = 0 THEN 1 ELSE 0]
    /\ processed = [s \in Senders |-> 0]
    /\ last = <<>>
    /\ fires = [k \in {"Week", "Repeating"} |-> 0]
    /\ gauge = 0
    /\ handlers = [h \in Handlers |-> Idle]

\* the receiver lives as long as the thread of the loop
ReceiverAlive == pc \notin {"done", "panicked"}

\* a faulty send that accepts a message for a receiver that is gone
Controller_send_Always(queue, m, alive) ==
    [queue |-> channel_send(queue, m), ok |-> TRUE]

\* Controller::send: [queue, ok]; the caller panics unless ok
Controller_send(queue, m, alive) ==
    IF alive
        THEN [queue |-> channel_send(queue, m), ok |-> TRUE]
        ELSE [queue |-> queue, ok |-> FALSE]

Requests == handlers[1].n + handlers[2].n

Free(h) == handlers[h].pc \in {"idle", "done"} /\ Requests < MaxRequests

Answer(h, r, next, status) ==
    [handlers EXCEPT ![h] = [pc |-> next, request |-> r, status |-> status,
                             n |-> handlers[h].n + 1]]

\* the request fails translation: 400
ServerReject(h, r) ==
    /\ Free(h)
    /\ Translate(r).outcome = "none"
    /\ handlers' = Answer(h, r, "done", "client error")
    /\ UNCHANGED <<now, mailbox, sleeping, pc, command, action, output, state,
                   handle, sent, processed, last, fires, gauge>>

\* the translation panics
ServerAbort(h, r) ==
    /\ Free(h)
    /\ Translate(r).outcome = "panic"
    /\ handlers' = Answer(h, r, "done", "abort")
    /\ UNCHANGED <<now, mailbox, sleeping, pc, command, action, output, state,
                   handle, sent, processed, last, fires, gauge>>

\* /set-strength: strength.store(...)
ServerStore(h, r) ==
    /\ Free(h)
    /\ Translate(r).outcome = "store"
    /\ gauge' = as_u8(clamp_map_from_0_to_1(parse_f64(r.strength)[1], 0, 255))
    /\ handlers' = Answer(h, r, "send", "pending")
    /\ UNCHANGED <<now, mailbox, sleeping, pc, command, action, output, state,
                   handle, sent, processed, last, fires>>

\* the handler takes the lock, sends and answers
Deliver(h, c) ==
    LET r == Controller_send(mailbox, Envelope(h, c), ReceiverAlive) IN
    /\ mailbox' = r.queue
    /\ sent' = IF r.ok THEN [sent EXCEPT ![h] = @ + 1] ELSE sent
    /\ handlers' = [handlers EXCEPT ![h].pc = "done",
                                    ![h].status = IF r.ok THEN "ok" ELSE "abort"]

\* /set-strength: controller.lock().unwrap().send(Command::Set(...))
ServerSend(h) ==
    /\ handlers[h].pc = "send"
    /\ Deliver(h, CmdSet(Strength_new_clamped(parse_f64(handlers[h].request.strength)[1])))
    /\ UNCHANGED <<now, sleeping, pc, command, action, output, state,
                   handle, processed, last, fires, gauge>>

\* the other routes send the translated command at once
ServerCommand(h, r) ==
    /\ Free(h)
    /\ Translate(r).outcome = "command"
    /\ LET a == Answer(h, r, "done", "pending")
           s == Controller_send(mailbox, Envelope(h, Translate(r).command[1]), ReceiverAlive)
       IN  /\ mailbox' = s.queue
           /\ sent' = IF s.ok THEN [sent EXCEPT ![h] = @ + 1] ELSE sent
           /\ handlers' = [a EXCEPT ![h].status = IF s.ok THEN "ok" ELSE "abort"]
    /\ UNCHANGED <<now, sleeping, pc, command, action, output, state,
                   handle, processed, last, fires, gauge>>

\* the sink's set panics on a hardware error and takes the thread with it
SinkFailure ==
    /\ pc = "apply"
    /\ action[1].kind = "Set"
    /\ pc' = "panicked"
    /\ action' = <<>>
    /\ UNCHANGED <<now, mailbox, sleeping, command, output, state, handle, sent,
                   processed, last, fires, gauge, handlers>>

\* requests are served and the loop runs at one instant of the clock
NextServer ==
    \/ \E h \in Handlers : \E r \in ServerRequests : ServerReject(h, r)
    \/ \E h \in Handlers : \E r \in ServerRequests : ServerAbort(h, r)
    \/ \E h \in Handlers : \E r \in ServerRequests : ServerStore(h, r)
    \/ \E h \in Handlers : ServerSend(h)
    \/ \E h \in Handlers : \E r \in ServerRequests : ServerCommand(h, r)
    \/ SinkFailure
    \/ LoopRecvCommand
    \/ LoopSleep
    \/ LoopContinue
    \/ LoopRecvNone
    \/ LoopProcess
    \/ LoopApply

SpecServer == InitServer /\ [][NextServer]_vars

\* ---- properties of the control loop ----
IsKind(m, kind) == m # <<>> /\ m[1].cmd.kind = kind

InFlight(sender) ==
    Cardinality({i \in 1..Len(mailbox) : mailbox[i].from = sender})
    + (IF pc = "process" /\ command # <<>> /\ command[1].from = sender THEN 1 ELSE 0)

InRange(v, t) ==
    \/ t.from <= v /\ v <= t.to
    \/ t.to <= v /\ v <= t.from

LastIs(kind) == last # <<>> /\ last[1].kind = kind

\* C1: whenever the loop head runs with a command in the mailbox it takes
\* exactly the oldest command, resets the wait disposition to Wake and goes on
\* to process it, whatever the disposition was; it never turns to sleep.
C1_CommandInterruptsWait ==
    /\ [][(pc = "recv" /\ mailbox # <<>> /\ pc' # pc)
            => /\ pc' = "process"
               /\ command' = <<Received(Head(mailbox), sleeping, now)>>
               /\ mailbox' = Tail(mailbox)
               /\ sleeping' = SleepingWake]_vars
    /\ [][(pc = "process" /\ command # <<>> /\ pc' # pc)
            => /\ sleeping = SleepingWake
               /\ processed'[command[1].from] = processed[command[1].from] + 1
               /\ action' = <<process(state, <<command[1].cmd>>, now).action>>]_vars

C1_Witness ==
    /\ pc = "apply"
    /\ command # <<>>
    /\ command[1].interrupted = "deadline ahead"
    /\ sleeping = SleepingWake

\* C2: the commands of one sender reach the engine in the order they were
\* sent, each exactly once: at any moment a sender's commands are processed,
\* or in flight in send order, and when the loop has exited every command
\* sent has been processed.
C2_PerSenderOrder ==
    /\ (pc = "process" /\ command # <<>>)
            => command[1].seq = processed[command[1].from] + 1
    /\ \A s \in Senders : sent[s] = processed[s] + InFlight(s)
    /\ \A i, j \in 1..Len(mailbox) :
            (i < j /\ mailbox[i].from = mailbox[j].from)
                => mailbox[i].seq < mailbox[j].seq
    /\ pc = "done" => (mailbox = <<>> /\ \A s \in Senders : processed[s] = sent[s])

C2_Witness ==
    /\ pc = "done"
    /\ processed[1] >= 2 \/ processed[2] >= 2

\* C3: once finish() has sent Finish, the fairly scheduled loop exits and
\* finish() returns; after the loop has left, nothing is processed and the
\* sink is not written.
C3_FinishReturns ==
    /\ (handle = "joining") ~> (handle = "returned")
    /\ [][pc = "done"
            => /\ pc' = "done"
               /\ output' = output
               /\ processed' = processed
               /\ state' = state]_vars

C3_Witness ==
    /\ handle = "returned"
    /\ processed[1] + processed[2] >= 1
    /\ command[1].interrupted = "deadline ahead"

C5_FinishWaitsForTransition ==
    handle = "returned" => state.active_transition = <<>>

\* C6: processing Set(s) clears the transition in progress and answers
\* Set(s), the loop writes exactly s next, and until another command is
\* processed or a schedule entry fires the sink keeps s.
C6_SetImmediate ==
    /\ [](pc = "apply" /\ IsKind(command, "Set")
            => /\ action = <<ActionSet(command[1].cmd.value)>>
               /\ state.active_transition = <<>>)
    /\ [][(pc = "apply" /\ IsKind(command, "Set") /\ pc' # pc)
            => output' = Written(command[1].cmd.value)]_vars
    /\ [](LastIs("Set") /\ ~(pc = "apply" /\ command # <<>>)
            => /\ output = Written(last[1].value)
               /\ state.active_transition = <<>>)

C6_Witness ==
    /\ LastIs("Set")
    /\ output = Written(last[1].value)
    /\ sleeping.kind = "To"
    /\ processed[1] >= 2

\* C7: processing SetTransition(t) answers the sample at fraction 0 (t.to
\* when the duration is 0) with no sleep before it is written; while t is
\* the last command every value in the sink lies between t.from and t.to;
\* the loop does not sleep before the transition has ended; a step taken once
\* the duration has elapsed answers t.to and ends the transition, and the
\* sink then holds t.to.
C7_TransitionRuns ==
    /\ [](pc = "apply" /\ IsKind(command, "SetTransition")
            => /\ action = <<ActionSet(IF command[1].cmd.transition.time = 0
                                          THEN command[1].cmd.transition.to
                                          ELSE command[1].cmd.transition.from)>>
               /\ sleeping = SleepingWake)
    /\ [](LastIs("SetTransition") /\ ~(pc = "apply" /\ command # <<>>)
            => /\ output.kind = "set"
               /\ InRange(output.value, last[1].transition))
    /\ [](LastIs("SetTransition") /\ state.active_transition = <<>> /\ pc # "apply"
            => output = Written(last[1].transition.to))
    /\ [](LastIs("SetTransition") /\ pc = "sleep" => state.active_transition = <<>>)
    /\ [][(/\ pc = "process" /\ command = <<>> /\ pc' # pc
            /\ state.active_transition # <<>>
            /\ now - state.active_transition[1].start
                    >= state.active_transition[1].transition.time)
            => /\ action' = <<ActionSet(state.active_transition[1].transition.to)>>
               /\ state'.active_transition # state.active_transition]_vars

C7_Witness ==
    /\ LastIs("SetTransition")
    /\ last[1].transition = EaseDown
    /\ state.active_transition = <<>>
    /\ output = Written(EaseDown.to)
    /\ pc = "recv"


\* ---- properties of the schedule set ----
Primaries(schedules) == {i \in 1..Len(schedules) : IsPrimary(schedules[i])}

PrimaryOf(schedules) == schedules[CHOOSE i \in Primaries(schedules) : TRUE]

\* C8: the schedule set always holds exactly one primary weekly entry,
\* whatever commands were processed and whichever entries fired; processing
\* ClearAllSchedulers leaves exactly the primary entry, unchanged, and answers
\* a wait of the primary entry's own next_fire.
C8_OnePrimary ==
    /\ [](Cardinality(Primaries(state.schedules)) = 1)
    /\ [][(/\ IsKind(command', "ClearAllSchedulers")
           /\ <<command, action, state>>' # <<command, action, state>>)
            => /\ state'.schedules = <<PrimaryOf(state.schedules)>>
               /\ action' = <<ActionWait([kind |-> "Duration",
                      dur |-> Scheduler_get_next(PrimaryOf(state.schedules), now)])>>]_vars

C8_Witness ==
    /\ IsKind(command, "ClearAllSchedulers")
    /\ state.schedules = <<PrimaryOf(state.schedules)>>
    /\ PrimaryOf(state.schedules).current = Day_next(Day_next(InitDay))
    /\ PrimaryOf(state.schedules).times[1] # PrimaryTime

\* C9: a step with no command and no transition in progress, taken once the
\* stored deadline of the schedule set has passed, fires the due entry: it
\* starts the default transition at that instant and answers its first sample.
C9_DueEntryFires ==
    [][(/\ pc = "process" /\ command = <<>> /\ pc' # pc
        /\ state.active_transition = <<>>
        /\ sleeping.kind = "To")
        => /\ state'.active_transition = Started(state.default_transition, now)
           /\ action' = <<ActionSet(ValueAt(state.default_transition, 0))>>]_vars

\* the span from t to the next occurrence of the cursor's weekday at that
\* weekday's stored time: today only when the cursor points at today and the
\* stored time is still ahead
NextOccurrence(self, t) ==
    LET stored == self.times[self.current]
        ahead == (self.current - Weekday(t) + 7) % 7
    IN  IF ahead = 0 /\ TimeOfDay(t) < stored
            THEN stored - TimeOfDay(t)
            ELSE (IF ahead = 0 THEN 7 ELSE ahead) * DayLen + stored - TimeOfDay(t)

\* C10: the weekly entry's next_fire is the span to the next occurrence of
\* the cursor's weekday at that weekday's stored time.
C10_WeeklyNextFire ==
    WeekScheduler_get_next(PrimaryOf(state.schedules), now)
        = NextOccurrence(PrimaryOf(state.schedules), now)

\* every instant of a week
Instants == 0..(7 * DayLen - 1)

\* C11: at every instant of the week, and so also when now is exactly the
\* stored time of day, the weekly entry's next_fire is strictly positive and
\* less than 8 days.
C11_WeeklySpanBounds ==
    \A t \in Instants \cup {now} :
        /\ WeekScheduler_get_next(PrimaryOf(state.schedules), t) > 0
        /\ WeekScheduler_get_next(PrimaryOf(state.schedules), t) < 8 * DayLen

C11_Witness ==
    /\ TimeOfDay(now) = WeekScheduler_get_next_time(PrimaryOf(state.schedules))
    /\ WeekScheduler_get_next(PrimaryOf(state.schedules), now) = DayLen
    /\ PrimaryOf(state.schedules).current # InitDay
    /\ WeekScheduler_get_next_time(PrimaryOf(state.schedules)) # PrimaryTime

\* C12: a firing of the weekly entry keeps the entry in its place in the set,
\* with the cursor one weekday further, Monday after Sunday, and the seven
\* stored times unchanged; after n firings the cursor is n days past the
\* initial one, modulo 7.
C12_WeeklyRenewal ==
    /\ [][fires'["Week"] # fires["Week"]
            => /\ fires'["Week"] = fires["Week"] + 1
               /\ Len(state'.schedules) = Len(state.schedules)
               /\ Primaries(state'.schedules) = Primaries(state.schedules)
               /\ PrimaryOf(state'.schedules).kind = "Week"
               /\ PrimaryOf(state'.schedules).times = PrimaryOf(state.schedules).times
               /\ PrimaryOf(state'.schedules).current =
                    (IF PrimaryOf(state.schedules).current = 6
                        THEN 0 ELSE PrimaryOf(state.schedules).current + 1)]_vars
    /\ [](PrimaryOf(state.schedules).current = (InitDay + fires["Week"]) % 7)

C12_Witness ==
    /\ fires["Week"] = 7
    /\ PrimaryOf(state.schedules).current = InitDay
    /\ PrimaryOf(state.schedules).times[1] # PrimaryTime
    /\ command = <<>>

Repeatings(schedules) ==
    {i \in 1..Len(schedules) : schedules[i].kind = "Repeating"}

Remove(schedules, i) ==
    SubSeq(schedules, 1, i - 1) \o SubSeq(schedules, i + 1, Len(schedules))

\* C13: a repeating entry does not renew itself: the step in which it fires
\* removes it from the set and leaves the other entries as they were, so the
\* set's next_fire is that of the remaining entries; repeating entries enter
\* the set only by AddScheduler, one per command, so no entry fires twice.
C13_RepeatingFiresOnce ==
    /\ [][fires'["Repeating"] # fires["Repeating"]
            => /\ fires'["Repeating"] = fires["Repeating"] + 1
               /\ \E i \in Repeatings(state.schedules) :
                    /\ state'.schedules = Remove(state.schedules, i)
                    /\ next_fire(state'.schedules, now) =
                        [kind |-> "Duration",
                         dur |-> Min({Scheduler_get_next(state.schedules[j], now) :
                                        j \in (1..Len(state.schedules)) \ {i}})]]_vars
    /\ [][Cardinality(Repeatings(state'.schedules))
                > Cardinality(Repeatings(state.schedules))
            => /\ IsKind(command', "AddScheduler")
               /\ state'.schedules = Append(state.schedules, command'[1].cmd.entry)]_vars

C13_Witness ==
    /\ fires["Repeating"] = 1
    /\ command = <<>>
    /\ Repeatings(state.schedules) = {}
    /\ now > 0

\* ---- properties of the wait disposition ----
\* C15: a poll that finds the mailbox empty goes on to process(None) exactly
\* when the disposition is Wake or a bounded deadline that now lies in the
\* past; otherwise it sleeps and polls again with the disposition untouched.
\* Neither step changes the engine or the sink.
C15_ProcessNoneWhenDue ==
    /\ [][(pc = "recv" /\ mailbox = <<>> /\ pc' # pc)
            => /\ IF \/ sleeping.kind = "Wake"
                     \/ sleeping.kind = "To" /\ sleeping.instant < now
                    THEN pc' = "process" /\ command' = <<>>
                    ELSE pc' = "sleep"
               /\ <<sleeping, state, output>>' = <<sleeping, state, output>>]_vars
    /\ [][(pc = "sleep" /\ pc' # pc)
            => /\ pc' = "recv"
               /\ <<sleeping, state, output>>' = <<sleeping, state, output>>]_vars

C15_Witness ==
    /\ pc = "process"
    /\ command = <<>>
    /\ sleeping.kind = "To"
    /\ sleeping.instant < now
    /\ processed[2] >= 1

\* C17: applying a sample that process(None) answered while the transition is
\* still in progress leaves the loop with a bounded deadline that has not
\* expired, so that the next poll sleeps before the next sample is taken.
C17_SamplePairedWithWait ==
    [][(/\ pc = "apply" /\ command = <<>> /\ pc' # pc
        /\ action[1].kind = "Set"
        /\ state.active_transition # <<>>)
        => /\ sleeping'.kind = "To"
           /\ DeadlineAhead(sleeping'.instant, now)]_vars

\* the time of day the entry waits for is this very instant
TimeReached(entry, t) ==
    TimeOfDay(t) = (IF entry.kind = "Week"
                        THEN WeekScheduler_get_next_time(entry)
                        ELSE entry.time)

\* C18: a no-command step that completes the transition in progress at the
\* instant an entry's time of day is reached answers the transition's `to`,
\* fires the entry and starts the default transition at that instant.
C18_CompletionAndFiring ==
    [][(/\ pc = "process" /\ command = <<>> /\ pc' # pc
        /\ state.active_transition # <<>>
        /\ now - state.active_transition[1].start
                >= state.active_transition[1].transition.time
        /\ \E i \in 1..Len(state.schedules) : TimeReached(state.schedules[i], now))
        => /\ action' = <<ActionSet(state.active_transition[1].transition.to)>>
           /\ fires' # fires
           /\ state'.active_transition = Started(state.default_transition, now)]_vars

\* ---- properties of the control surface and of Strength ----
F64Inputs == {0 - 500, 0, 300, 800, Full, 1500, NaN}

StrengthsOf(c) ==
    IF c.kind = "Set" THEN {c.value}
    ELSE IF c.kind \in {"SetTransition", "ChangeDayTimerTransition"}
        THEN {c.transition.from, c.transition.to}
    ELSE {}

\* C14: every Strength that exists lies in [0.0, 1.0]: what Strength::new
\* returns when it does not abort, the strengths of the commands in the
\* mailbox and in the loop's hands, and the value the sink holds.
C14_StrengthInRange ==
    /\ \A v \in F64Inputs :
            Strength_new(v) # <<>> => Strength_new(v)[1] \in 0..Full
    /\ \A i \in 1..Len(mailbox) : StrengthsOf(mailbox[i].cmd) \subseteq 0..Full
    /\ command # <<>> => StrengthsOf(command[1].cmd) \subseteq 0..Full
    /\ output.kind = "set" => output.value \in 0..Full

\* the send a handler has just performed
Sending(h) ==
    /\ handlers'[h] # handlers[h]
    /\ handlers'[h].pc = "done"
    /\ Translate(handlers'[h].request).outcome \in {"store", "command"}

\* C16: a handler that has a command to send is never kept waiting; the send
\* is one step that appends the command to the mailbox while the loop's
\* thread is alive, and once the thread is gone it makes the caller abort and
\* changes neither the mailbox, the engine nor the sink.
C16_SendNeverBlocks ==
    /\ [](\A h \in Handlers : handlers[h].pc = "send" => ENABLED ServerSend(h))
    /\ [][\A h \in Handlers : Sending(h) =>
            IF ReceiverAlive
                THEN /\ handlers'[h].status = "ok"
                     /\ Len(mailbox') = Len(mailbox) + 1
                     /\ SubSeq(mailbox', 1, Len(mailbox)) = mailbox
                     /\ mailbox'[Len(mailbox')].from = h
                ELSE /\ handlers'[h].status = "abort"
                     /\ <<mailbox, state, output, command, action, sleeping>>'
                            = <<mailbox, state, output, command, action, sleeping>>]_vars

C16_Witness ==
    /\ pc = "panicked"
    /\ handlers[1].status = "ok"
    /\ handlers[2].status = "abort"
    /\ Translate(handlers[2].request).outcome = "store"
    /\ mailbox = <<>>

InUnit(token) ==
    /\ token.text = "number"
    /\ f64_ge(token.value, 0)
    /\ f64_le(token.value, Full)

\* the payload fails translation
Invalid(r) ==
    CASE r.route = "/set-strength" -> ~InUnit(r.strength)
      [] r.route = "/set-day-time" ->
            r.day.text # "weekday" \/ r.time.text \notin {"absent", "time"}
      [] r.route = "/transition" ->
            \/ ~InUnit(r.from)
            \/ ~InUnit(r.to)
            \/ r.time.text # "number"
            \/ ~f64_ge(r.time.value, 0)
            \/ r.interpolation \notin {"linear", "sine", "linear-extra", "sine-extra"}
            \/ /\ r.interpolation \in {"linear-extra", "sine-extra"}
               /\ (Len(r.extras) # 1 \/ r.extras[1].text # "number")
            \/ r.action \notin {"set", "preview"}
      [] OTHER -> FALSE

\* C19: a handler that takes a request whose payload fails translation
\* answers with a client error in that step, without aborting, and neither
\* the mailbox nor the gauge changes.
C19_InvalidRejected ==
    [][\A h \in Handlers :
        (handlers'[h].n # handlers[h].n /\ Invalid(handlers'[h].request))
            => /\ handlers'[h].status = "client error"
               /\ mailbox' = mailbox
               /\ gauge' = gauge]_vars

\* C20: when every request has completed and the loop has applied every
\* command, the last of them a Set, the gauge is the u8 of the strength the
\* sink holds.
C20_GaugeFollowsLastSet ==
    (/\ \A h \in Handlers : handlers[h].pc # "send"
     /\ mailbox = <<>>
     /\ pc \in {"recv", "sleep"}
     /\ LastIs("Set"))
        => /\ output = Written(last[1].value)
           /\ gauge = as_u8(f64_mul(last[1].value, 255))

====
